---- MODULE Spec2Model ----
(***************************************************************************)
(* A model of the geocoin game of src/src/main.ts (its final revision,     *)
(* lines 254-623) and of the cell registry of src/src/board.ts.            *)
(*                                                                         *)
(* Coordinates.  A leaflet.LatLng is a record [lat, lng] of JavaScript     *)
(* Numbers: IEEE-754 doubles, with the rounding of each multiplication,    *)
(* division and addition the code makes.                                   *)
(*                                                                         *)
(* Objects.  In the Board a Cell object is a record [i, j, obj].  The      *)
(* field obj tells apart distinct objects that hold the same coordinates:  *)
(* an object literal {i, j} evaluated by the Board gets an obj that        *)
(* differs from the one the registry holds under the same key (NewCell).   *)
(* main.ts reads the i and j of a Cell and never compares Cell objects,    *)
(* so its caches and coins hold a cell as the record [i, j].               *)
(*                                                                         *)
(* luck.ts is not part of the sources at hand: luck is modelled from its   *)
(* description, a fixed function from a string key to [0, 1), here in      *)
(* thousandths (0 .. 999).                                                 *)
(*                                                                         *)
(* Rendering (the leaflet map view, the player marker, the polylines of    *)
(* the movement history, the status panel and the popup's DOM) is not      *)
(* modelled; the rectangles of cacheMarkers are, as their bounds and the   *)
(* cache their popup is bound to.                                          *)
(*                                                                         *)
(* Specifications.  Spec: the buttons of the game and the reload of the    *)
(* page.  SpecReset: Spec with the reset button.  SpecTrack: live          *)
(* tracking, with tick and the geolocation callbacks.  SpecGeo, SpecWalk:  *)
(* the game and the walk of a tracked player.  SpecBoard: a Board called   *)
(* with any point.  SpecStore: the loaders called over any store.          *)
(***************************************************************************)
EXTENDS Integers, Sequences, FiniteSets, TLC

(***************************************************************************)
(* Bounds of the model.                                                    *)
(***************************************************************************)
\* the visibility radius the model's Board is built with (8 in main.ts:337)
VisibilityBound == 1
\* the player's cell stays within this many tiles of the start cell
MaxMove == 1
\* SpecBoard: the points lie in this many tiles on either side of a line
MaxTile == 1
\* SpecBoard: number of Board calls in a run
MaxCalls == 3
\* the geolocation requests a session issues
MaxRequests == 2

(***************************************************************************)
(* Natural numbers of any size: little-endian sequences of limbs in        *)
(* 0 .. Base - 1 with no leading zero limb (zero is << >>).                *)
(***************************************************************************)
LimbBits == 15
Base == 2 ^ LimbBits

Limb(a, k) == IF k <= Len(a) THEN a[k] ELSE 0
Max(x, y) == IF x >= y THEN x ELSE y
Min(x, y) == IF x <= y THEN x ELSE y

RECURSIVE BigNorm(_)
BigNorm(a) ==
  IF a # <<>> /\ a[Len(a)] = 0 THEN BigNorm(SubSeq(a, 1, Len(a) - 1)) ELSE a

RECURSIVE BigFromNat(_)
BigFromNat(n) == IF n = 0 THEN <<>> ELSE << n % Base >> \o BigFromNat(n \div Base)

RECURSIVE BigToNat(_)
BigToNat(a) == IF a = <<>> THEN 0 ELSE a[1] + Base * BigToNat(Tail(a))

\* -1, 0 or 1 as a < b, a = b or a > b, comparing from limb k down
RECURSIVE BigCmpFrom(_, _, _)
BigCmpFrom(a, b, k) ==
  IF k = 0 THEN 0
  ELSE IF a[k] < b[k] THEN -1
  ELSE IF a[k] > b[k] THEN 1
  ELSE BigCmpFrom(a, b, k - 1)

BigCmp(a, b) ==
  IF Len(a) < Len(b) THEN -1
  ELSE IF Len(a) > Len(b) THEN 1
  ELSE BigCmpFrom(a, b, Len(a))

\* a + b from limb k on, where t is the sum of the limbs k - 1 and the carry
RECURSIVE BigAddFrom(_, _, _, _, _)
BigAddFrom(a, b, k, t, acc) ==
  IF k > Max(Len(a), Len(b))
  THEN IF t = 0 THEN acc ELSE Append(acc, t)
  ELSE BigAddFrom(a, b, k + 1, (Limb(a, k) + Limb(b, k) + t) \div Base,
                  Append(acc, (Limb(a, k) + Limb(b, k) + t) % Base))

BigAdd(a, b) == BigAddFrom(a, b, 1, 0, <<>>)

\* a - b for a >= b, from limb k on
RECURSIVE BigSubFrom(_, _, _, _, _)
BigSubFrom(a, b, k, borrow, acc) ==
  IF k > Len(a) THEN BigNorm(acc)
  ELSE BigSubFrom(a, b, k + 1,
                  IF a[k] - Limb(b, k) - borrow < 0 THEN 1 ELSE 0,
                  Append(acc, (a[k] - Limb(b, k) - borrow) % Base))

BigSub(a, b) == BigSubFrom(a, b, 1, 0, <<>>)

\* a * m for 0 <= m < Base, from limb k on
RECURSIVE BigMulSmallFrom(_, _, _, _, _)
BigMulSmallFrom(a, m, k, carry, acc) ==
  IF k > Len(a)
  THEN IF carry = 0 THEN acc ELSE Append(acc, carry)
  ELSE BigMulSmallFrom(a, m, k + 1, (a[k] * m + carry) \div Base,
                       Append(acc, (a[k] * m + carry) % Base))

BigMulSmall(a, m) == IF m = 0 THEN <<>> ELSE BigMulSmallFrom(a, m, 1, 0, <<>>)

\* a * Base^n
BigShlLimbs(a, n) == IF a = <<>> THEN <<>> ELSE [k \in 1 .. n |-> 0] \o a

RECURSIVE BigMulFrom(_, _, _, _)
BigMulFrom(a, b, k, acc) ==
  IF k > Len(b) THEN acc
  ELSE BigMulFrom(a, b, k + 1,
                  BigAdd(acc, BigShlLimbs(BigMulSmall(a, b[k]), k - 1)))

BigMul(a, b) == BigMulFrom(a, b, 1, <<>>)

\* a * 2^n
BigShl(a, n) ==
  BigShlLimbs(BigMulSmall(a, 2 ^ (n % LimbBits)), n \div LimbBits)

\* floor(b / 2^r) for r < LimbBits
BigShrBits(b, r) ==
  BigNorm([k \in 1 .. Len(b) |->
             (b[k] \div 2 ^ r) + (Limb(b, k + 1) % 2 ^ r) * 2 ^ (LimbBits - r)])

\* floor(a / 2^n)
BigShr(a, n) == BigShrBits(SubSeq(a, n \div LimbBits + 1, Len(a)), n % LimbBits)

\* a mod 2^n
BigLow(a, n) ==
  BigNorm([k \in 1 .. Min(Len(a), n \div LimbBits + 1) |->
             IF k <= n \div LimbBits THEN a[k] ELSE a[k] % 2 ^ (n % LimbBits)])

\* the number of bits of 0 < v < Base
BitLenSmall(v) == CHOOSE n \in 1 .. LimbBits : 2 ^ (n - 1) <= v /\ v < 2 ^ n

BigBitLen(a) ==
  IF a = <<>> THEN 0 ELSE LimbBits * (Len(a) - 1) + BitLenSmall(a[Len(a)])

\* the number of zero bits at the low end of a # 0
RECURSIVE BigTrailingZeros(_)
BigTrailingZeros(a) ==
  IF a[1] = 0 THEN LimbBits + BigTrailingZeros(Tail(a))
  ELSE CHOOSE n \in 0 .. LimbBits - 1 :
         a[1] % 2 ^ n = 0 /\ a[1] % 2 ^ (n + 1) # 0

\* the greatest digit q with q * d <= rem, from the estimate q down
RECURSIVE BigDigitFrom(_, _, _)
BigDigitFrom(rem, d, q) ==
  IF BigCmp(BigMulSmall(d, q), rem) > 0 THEN BigDigitFrom(rem, d, q - 1) ELSE q

\* the estimate of the next digit of rem / d, from their top limbs
BigDigitEstimate(rem, d) ==
  Min((Limb(rem, Len(d) + 1) * Base + Limb(rem, Len(d))) \div d[Len(d)],
      Base - 1)

\* long division by d (its top limb at least Base / 2), from limb k of a
\* down: BigDivFrom brings the limb down, BigDivStep finds the digit q and
\* BigDivTake subtracts q * d
RECURSIVE BigDivFrom(_, _, _, _, _)
RECURSIVE BigDivStep(_, _, _, _, _)
RECURSIVE BigDivTake(_, _, _, _, _, _)
BigDivFrom(a, d, k, rem, quot) ==
  IF k = 0 THEN [quot |-> BigNorm(quot), rem |-> rem]
  ELSE BigDivStep(a, d, k, BigNorm(<< a[k] >> \o rem), quot)

BigDivStep(a, d, k, rem, quot) ==
  BigDivTake(a, d, k, rem, quot,
             IF BigCmp(rem, d) < 0 THEN 0
             ELSE BigDigitFrom(rem, d, BigDigitEstimate(rem, d)))

BigDivTake(a, d, k, rem, quot, q) ==
  BigDivFrom(a, d, k - 1, BigSub(rem, BigMulSmall(d, q)), << q >> \o quot)

\* the result of the division of a by d, both shifted left by s bits
BigDivShifted(a, d) == BigDivFrom(a, d, Len(a), <<>>, <<>>)
BigDivUnshift(r, s) == [quot |-> r.quot, rem |-> BigShr(r.rem, s)]
BigDivModBy(a, d, s) == BigDivUnshift(BigDivShifted(BigShl(a, s), BigShl(d, s)), s)

\* floor(a / d) and a mod d, for d # 0
BigDivMod(a, d) == BigDivModBy(a, d, LimbBits - BitLenSmall(d[Len(d)]))

(***************************************************************************)
(* IEEE-754 double precision numbers (the Number of JavaScript), within    *)
(* the normal range: [sign, m, e] stands for sign * m * 2^e, with m odd    *)
(* and below 2^53, or m = 0 (then sign = 1 and e = 0).                     *)
(***************************************************************************)
Precision == 53

F64Zero == [sign |-> 1, m |-> <<>>, e |-> 0]

\* sign * m * 2^e for m # 0, with the zero bits at the low end of m (tz of
\* them) moved to the exponent
F64Strip(sign, m, e, tz) == [sign |-> sign, m |-> BigShr(m, tz), e |-> e + tz]
F64Canonical(sign, m, e) == F64Strip(sign, m, e, BigTrailingZeros(m))

\* sign * (q + f) * 2^e rounded to sign * q * 2^e or sign * (q + 1) * 2^e,
\* where the fraction f is below (c < 0), equal to (c = 0) or above (c > 0)
\* one half: to the nearest, and to the even one of the two on a tie
F64RoundQuotient(sign, q, e, c) ==
  F64Canonical(sign,
               IF c > 0 \/ (c = 0 /\ q[1] % 2 = 1) THEN BigAdd(q, << 1 >>)
               ELSE q,
               e)

\* sign * n * 2^e rounded to the nearest double, where d bits of n are to go
F64RoundBy(sign, n, e, d) ==
  F64RoundQuotient(sign, BigShr(n, d), e + d,
                   IF d = 0 THEN -1
                   ELSE BigCmp(BigLow(n, d), BigShl(<< 1 >>, d - 1)))

\* sign * n * 2^e rounded to the nearest double, ties to even
F64Round(sign, n, e) ==
  IF n = <<>> THEN F64Zero
  ELSE F64RoundBy(sign, n, e, Max(BigBitLen(n) - Precision, 0))

\* the double of an integer
F64FromInt(i) == F64Round(IF i < 0 THEN -1 ELSE 1,
                          BigFromNat(IF i < 0 THEN -i ELSE i), 0)

\* x * y
F64Mul(x, y) == F64Round(x.sign * y.sign, BigMul(x.m, y.m), x.e + y.e)

\* sign * (qr.quot + qr.rem / b) * 2^(-k) rounded to the nearest double: the
\* remainder counts as a bit below the last bit of the quotient
F64RoundDivision(sign, qr, k) ==
  F64Round(sign,
           BigAdd(BigShl(qr.quot, 1), IF qr.rem = <<>> THEN <<>> ELSE << 1 >>),
           -k - 1)

\* sign * a / b rounded to the nearest double, from the quotient of a * 2^k
\* by b
F64RatioBy(sign, a, b, k) ==
  F64RoundDivision(sign, BigDivMod(BigShl(a, k), b), k)

\* sign * a / b rounded to the nearest double, for naturals a and b # 0
F64Ratio(sign, a, b) ==
  IF a = <<>> THEN F64Zero
  ELSE F64RatioBy(sign, a, b,
                  Max(Precision + 3 + BigBitLen(b) - BigBitLen(a), 0))

\* r * 2^n
F64Scale(r, n) == IF r.m = <<>> THEN r ELSE [r EXCEPT !.e = @ + n]

\* x / y for y # 0
F64Div(x, y) == F64Scale(F64Ratio(x.sign * y.sign, x.m, y.m), x.e - y.e)

RECURSIVE BigPow10(_)
BigPow10(n) == IF n = 0 THEN << 1 >> ELSE BigMulSmall(BigPow10(n - 1), 10)

\* the decimal literal sign * (hi * 10^8 + lo) / 10^digits
F64Literal(sign, hi, lo, digits) ==
  F64Ratio(sign,
           BigAdd(BigMul(BigFromNat(hi), BigPow10(8)), BigFromNat(lo)),
           BigPow10(digits))

\* sx * a * 2^e + sy * b * 2^e for a, b # 0, where c compares a with b
F64AddAligned(sx, a, sy, b, e, c) ==
  IF sx = sy THEN F64Round(sx, BigAdd(a, b), e)
  ELSE IF c = 0 THEN F64Zero
  ELSE IF c > 0 THEN F64Round(sx, BigSub(a, b), e)
  ELSE F64Round(sy, BigSub(b, a), e)

F64AddAt(sx, a, sy, b, e) == F64AddAligned(sx, a, sy, b, e, BigCmp(a, b))

\* x + y
F64Add(x, y) ==
  IF x.m = <<>> THEN y
  ELSE IF y.m = <<>> THEN x
  ELSE F64AddAt(x.sign, BigShl(x.m, x.e - Min(x.e, y.e)),
                y.sign, BigShl(y.m, y.e - Min(x.e, y.e)), Min(x.e, y.e))

\* -1, 0 or 1 as x < y, x = y or x > y
F64Cmp(x, y) ==
  IF x.sign # y.sign \/ x.m = <<>> \/ y.m = <<>>
  THEN IF x = y THEN 0
       ELSE IF x.m = <<>> THEN -y.sign
       ELSE x.sign
  ELSE x.sign * BigCmp(BigShl(x.m, x.e - Min(x.e, y.e)),
                       BigShl(y.m, y.e - Min(x.e, y.e)))

\* Math.floor(x), as an integer
MathFloor(x) ==
  IF x.m = <<>> THEN 0
  ELSE IF x.e >= 0 THEN x.sign * BigToNat(BigShl(x.m, x.e))
  ELSE IF x.sign = 1 THEN BigToNat(BigShr(x.m, -x.e))
  ELSE -(BigToNat(BigShr(x.m, -x.e)) + 1)

(***************************************************************************)
(* Tunable gameplay parameters, main.ts:334-339.                           *)
(***************************************************************************)
\* 1e-4
TILE_DEGREES == F64Literal(1, 0, 1, 4)
NEIGHBORHOOD_SIZE == VisibilityBound
\* 0.1, in thousandths
CACHE_SPAWN_PROBABILITY == 100
COIN_PROBABILITY == 25

\* leaflet.latLng(lat, lng)
latLng(lat, lng) == [lat |-> lat, lng |-> lng]

\* Math.ceil(x / 1000) for an integer x >= 0
MathCeilThousandths(x) == (x + 999) \div 1000

\* leaflet.latLng(36.98949379578401, -122.06277128548504)
OAKES_CLASSROOM ==
  latLng(F64Literal(1, 36989493, 79578401, 14),
         F64Literal(-1, 122062771, 28548504, 14))

\* new Board(TILE_DEGREES, NEIGHBORHOOD_SIZE), main.ts:464
tileWidth == TILE_DEGREES
tileVisibilityRadius == NEIGHBORHOOD_SIZE

(***************************************************************************)
(* The numbers of the model.  The quotients, the products and the sums that *)
(* the runs need again and again are tabulated, for every coordinate and   *)
(* every tile index a run can meet (a definition without parameters is     *)
(* evaluated once); Divide, Times and Plus look them up.                   *)
(***************************************************************************)
\* x + i * TILE_DEGREES, as movePlayer computes the coordinate after a move
Moved(x, i) == F64Add(x, F64Mul(F64FromInt(i), TILE_DEGREES))

\* the coordinates a walk of at most n moves can reach, on either axis, from
\* the coordinates of the set
RECURSIVE WalkCoordinates(_, _)
WalkCoordinates(coordinates, n) ==
  IF n = 0 THEN coordinates
  ELSE WalkCoordinates(coordinates \cup { Moved(x, i) : x \in coordinates,
                                                        i \in {-1, 1} },
                       n - 1)

\* SpecBoard: the h-th multiple of half a tile width: a tile's lower bound as
\* getCellBounds computes it when h is even (h / 2 * tileWidth), and the
\* middle of a tile when h is odd
Coordinate(h) == F64Mul(F64FromInt(h), F64Div(tileWidth, F64FromInt(2)))

\* SpecBoard: the latitudes lie in the tiles 13 - MaxTile .. 12 + MaxTile
\* south of the equator, the longitudes in MaxTile tiles on either side of
\* the prime meridian
BoardLatTiles == (-13 - MaxTile) .. (-13 + MaxTile - 1)
BoardLngTiles == -MaxTile .. MaxTile - 1
BoardLats == { Coordinate(h) : h \in { 2 * i : i \in BoardLatTiles }
                                      \cup { 2 * i + 1 : i \in BoardLatTiles } }
BoardLngs == { Coordinate(h) : h \in { 2 * j : j \in BoardLngTiles }
                                      \cup { 2 * j + 1 : j \in BoardLngTiles } }

\* a position the geolocation can report: on the south-west corner of the
\* tile -13 of the latitudes (-13 * tileWidth, as getCellBounds computes it),
\* in the middle of the tile 0 of the longitudes
GeoFix == latLng(Coordinate(-26), Coordinate(1))

\* the values of a function
Range(f) == { f[x] : x \in DOMAIN f }

\* x / y, for every coordinate x of the runs and the tile width y
QuotientTable ==
  [q \in (WalkCoordinates({OAKES_CLASSROOM.lat, OAKES_CLASSROOM.lng,
                           GeoFix.lat, GeoFix.lng}, MaxMove + 1)
            \cup BoardLats \cup BoardLngs) \X {tileWidth}
     |-> F64Div(q[1], q[2])] @@ << >>

\* i * y, for every tile index i of the runs (and the -1, 0 and 1 of
\* directions) and the tile width y
ProductTable ==
  [q \in ({ MathFloor(x) + d :
              x \in Range(QuotientTable),
              d \in -(MaxMove + tileVisibilityRadius + 1)
                      .. MaxMove + tileVisibilityRadius + 2 }
            \cup -1 .. 1) \X {tileWidth}
     |-> F64Mul(F64FromInt(q[1]), q[2])] @@ << >>

\* x + y, for every coordinate x of the runs and the -1, 0 and 1 tile widths
\* y of a move
SumTable ==
  [q \in WalkCoordinates({OAKES_CLASSROOM.lat, OAKES_CLASSROOM.lng,
                          GeoFix.lat, GeoFix.lng}, MaxMove + 1)
           \X { ProductTable[<< i, TILE_DEGREES >>] : i \in -1 .. 1 }
     |-> F64Add(q[1], q[2])] @@ << >>

\* x + y
Plus(x, y) == SumTable[<< x, y >>]

\* x / y
Divide(x, y) == QuotientTable[<< x, y >>]

\* i * y for an integer i
Times(i, y) == ProductTable[<< i, y >>]

(***************************************************************************)
(* The state of the page, and of the store that outlives it.               *)
(***************************************************************************)
VARIABLES
  location,      \* player.location
  inventory,     \* player.inventory
  localStorage,  \* window.localStorage: key -> memento
  knownCells,    \* board.knownCells: key -> Cell object
  localCaches,   \* the live caches
  cacheMarkers,  \* the rectangles on the map
  events,        \* the events the last handler dispatched, in order
  lastOp,        \* the last handler that ran: [op, arg]
  generated,     \* history: the caches generateCache returned to the last
                 \* handler
  departed,      \* history: key -> the coins a cache held when it was last
                 \* removed from localCaches, for the caches not live now
  reentered,     \* history: the entries of departed whose cache the last
                 \* handler brought back, as [key, coins]
  ret,           \* SpecBoard: what the last Board call returned
  calls,         \* SpecBoard: number of Board calls so far
  tracking,      \* main.ts:402
  time,          \* main.ts:608
  pending,       \* the getCurrentPosition requests in flight, each the
                 \* number of its issue in the session
  issued,        \* history: the number of requests the session issued
  applied        \* history: the request whose position was assigned to
                 \* player.location last, 0 when there was none

vars == << location, inventory, localStorage, knownCells, localCaches,
           cacheMarkers, events, lastOp, generated, departed, reentered,
           ret, calls, tracking, time, pending, issued, applied >>

boardVars == << ret, calls >>

requestVars == << pending, issued, applied >>

(***************************************************************************)
(* board.ts                                                                *)
(***************************************************************************)
\* [i, j].toString()
CellKey(i, j) == ToString(i) \o "," \o ToString(j)

\* the object literal { i: ..., j: ... }: an object that is none of the
\* registry's
NewCell(known, i, j) ==
  LET key == CellKey(i, j)
  IN  [i |-> i, j |-> j,
       obj |-> IF key \in DOMAIN known THEN known[key].obj + 1 ELSE 1]

\* a mutant of getCanonicalCell: the cell given always replaces the entry
getCanonicalCell_overwrite(known, cell) ==
  LET key == CellKey(cell.i, cell.j)
      known2 == [k \in DOMAIN known \cup {key} |->
                   IF k = key THEN cell ELSE known[k]]
  IN  [known |-> known2, cell |-> known2[key]]

\* Board.getCanonicalCell: the registry after the call and the cell returned
getCanonicalCell(known, cell) ==
  LET key == CellKey(cell.i, cell.j)
      known2 == IF key \notin DOMAIN known THEN known @@ (key :> cell)
                                           ELSE known
  IN  [known |-> known2, cell |-> known2[key]]

\* Board.getCellForPoint
getCellForPoint(known, point) ==
  getCanonicalCell(known,
    NewCell(known, MathFloor(Divide(point.lat, tileWidth)),
                   MathFloor(Divide(point.lng, tileWidth))))

\* Board.getCellBounds
getCellBounds(cell) ==
  [southWest |-> latLng(Times(cell.i, tileWidth), Times(cell.j, tileWidth)),
   northEast |-> latLng(Times(cell.i + 1, tileWidth),
                        Times(cell.j + 1, tileWidth))]

\* a mutant of NearInner: the offsets i and j are applied the other way round
RECURSIVE NearInner_swapped(_, _, _, _, _)
NearInner_swapped(known, originCell, i, j, resultCells) ==
  IF j <= tileVisibilityRadius
  THEN LET c == getCanonicalCell(known,
                  NewCell(known, originCell.i + j, originCell.j + i))
       IN  NearInner_swapped(c.known, originCell, i, j + 1,
                             Append(resultCells, c.cell))
  ELSE [known |-> known, cells |-> resultCells]

\* the inner loop of Board.getCellsNearPoint, from j on
RECURSIVE NearInner(_, _, _, _, _)
NearInner(known, originCell, i, j, resultCells) ==
  IF j <= tileVisibilityRadius
  THEN LET c == getCanonicalCell(known,
                  NewCell(known, originCell.i + i, originCell.j + j))
       IN  NearInner(c.known, originCell, i, j + 1,
                     Append(resultCells, c.cell))
  ELSE [known |-> known, cells |-> resultCells]

\* the outer loop of Board.getCellsNearPoint, from i on
RECURSIVE NearOuter(_, _, _, _)
NearOuter(known, originCell, i, resultCells) ==
  IF i <= tileVisibilityRadius
  THEN LET row == NearInner(known, originCell, i, -tileVisibilityRadius,
                            resultCells)
       IN  NearOuter(row.known, originCell, i + 1, row.cells)
  ELSE [known |-> known, cells |-> resultCells]

\* Board.getCellsNearPoint: the registry after the call and the cells returned
getCellsNearPoint(known, point) ==
  LET origin == getCellForPoint(known, point)
  IN  NearOuter(origin.known, origin.cell, -tileVisibilityRadius, <<>>)

(***************************************************************************)
(* luck.ts (modelled from its description): a fixed function of the key,   *)
(* in thousandths.  The table gives, as << key, luck >>, the cells around  *)
(* the start cell (369894, -1220628) whose luck is not 0.5.                *)
(***************************************************************************)
LuckTable ==
  { << "369894,-1220627", 50 >>, << "369893,-1220628", 0 >>,
    << "369896,-1220628", 30 >>, << "369894,-1220629", 100 >>,
    << "369895,-1220627", 999 >> }

LuckByKey == [key \in { e[1] : e \in LuckTable } |->
                (CHOOSE e \in LuckTable : e[1] = key)[2]]

luck(key) == IF key \in DOMAIN LuckByKey THEN LuckByKey[key] ELSE 500

\* the cell of OAKES_CLASSROOM
StartCell ==
  [i |-> MathFloor(Divide(OAKES_CLASSROOM.lat, TILE_DEGREES)),
   j |-> MathFloor(Divide(OAKES_CLASSROOM.lng, TILE_DEGREES))]

(***************************************************************************)
(* The store (window.localStorage) and the mementos, main.ts:370-388 and   *)
(* 469-482.  A JSON text is modelled by the value it encodes: objects      *)
(* without identity (no obj), arrays as sequences.                         *)
(***************************************************************************)
\* localStorage.getItem(key): null when the key is absent
getItem(storage, key) ==
  IF key \in DOMAIN storage
  THEN [found |-> TRUE, value |-> storage[key]]
  ELSE [found |-> FALSE]

\* localStorage.setItem(key, value)
setItem(storage, key, value) ==
  [k \in DOMAIN storage \cup {key} |-> IF k = key THEN value ELSE storage[k]]

\* A JSON text: an object is the sequence of its <<name, value>> members in
\* the order of the text, an array the sequence of its elements.
Member(json, name) ==
  (CHOOSE m \in { json[n] : n \in 1 .. Len(json) } : m[1] = name)[2]

\* a text that is no JSON text, such as "{": JSON.parse throws a SyntaxError
\* on it
NotJson == << <<>> >>
JsonParseThrows(text) == Len(text) = 1 /\ Len(text[1]) = 0

\* JSON.stringify of a Cell and of a Coin
JsonCell(cell) == << <<"i", cell.i>>, <<"j", cell.j>> >>
JsonCoin(coin) ==
  << <<"location", JsonCell(coin.location)>>,
     <<"serialNumber", coin.serialNumber>> >>

\* JSON.parse of a Cell and of a Coin
ParseCell(json) == [i |-> Member(json, "i"), j |-> Member(json, "j")]
ParseCoin(json) ==
  [location |-> ParseCell(Member(json, "location")),
   serialNumber |-> Member(json, "serialNumber")]

playerCoinsToMomento(inv) == [n \in 1 .. Len(inv) |-> JsonCoin(inv[n])]

\* a mutant of playerCoinsFromMomento: the coins come back in reverse order
playerCoinsFromMomento_reversed(momento) ==
  [n \in 1 .. Len(momento) |-> ParseCoin(momento[Len(momento) + 1 - n])]

playerCoinsFromMomento(momento) ==
  [n \in 1 .. Len(momento) |-> ParseCoin(momento[n])]

\* savePlayer: the store after it
savePlayer(storage, inv) == setItem(storage, "player", playerCoinsToMomento(inv))

\* loadPlayerCoins: null (found = FALSE) when there is no record; threw when
\* JSON.parse threw, and nothing is returned
loadPlayerCoins(storage) ==
  LET momento == getItem(storage, "player")
  IN  IF momento.found
      THEN IF JsonParseThrows(momento.value)
           THEN [found |-> FALSE, threw |-> TRUE]
           ELSE [found |-> TRUE, threw |-> FALSE,
                 value |-> playerCoinsFromMomento(momento.value)]
      ELSE [found |-> FALSE, threw |-> FALSE]

cacheToMomento(cache) ==
  << <<"coins", [n \in 1 .. Len(cache.coins) |-> JsonCoin(cache.coins[n])]>>,
     <<"position", JsonCell(cache.position)>> >>

cacheFromMomento(momento) ==
  [coins |-> [n \in 1 .. Len(Member(momento, "coins")) |->
                ParseCoin(Member(momento, "coins")[n])],
   position |-> ParseCell(Member(momento, "position"))]

\* a mutant of storeCache: nothing is written
storeCache_nothing(storage, cache) == storage

\* storeCache: the store after it
storeCache(storage, cache) ==
  setItem(storage, CellKey(cache.position.i, cache.position.j),
          cacheToMomento(cache))

(***************************************************************************)
(* Cache generation and loading, main.ts:502-541.                          *)
(***************************************************************************)
\* the loop of generateCache, from serial number i on
RECURSIVE GenerateCoins(_, _, _, _)
GenerateCoins(cell, i, num_coins, coins) ==
  IF i < num_coins
  THEN GenerateCoins(cell, i + 1, num_coins,
                     Append(coins, [location |-> cell, serialNumber |-> i]))
  ELSE coins

\* a mutant of generateCache: the number of coins is rounded down
generateCache_floor(cell) ==
  LET num_coins ==
        (luck(CellKey(cell.i, cell.j)) * COIN_PROBABILITY) \div 1000
  IN  [coins |-> GenerateCoins(cell, 0, num_coins, <<>>), position |-> cell]

generateCache(cell) ==
  LET num_coins ==
        MathCeilThousandths(luck(CellKey(cell.i, cell.j)) * COIN_PROBABILITY)
  IN  [coins |-> GenerateCoins(cell, 0, num_coins, <<>>), position |-> cell]

\* a mutant of loadCache: the store is not read
loadCache_regenerate(storage, cell) ==
  [cache |-> generateCache(cell), generated |-> TRUE, threw |-> FALSE]

\* loadCache: the cache, and whether generateCache made it; threw when
\* JSON.parse threw, and nothing is returned
loadCache(storage, cell) ==
  LET momento == getItem(storage, CellKey(cell.i, cell.j))
  IN  IF momento.found
      THEN IF JsonParseThrows(momento.value)
           THEN [generated |-> FALSE, threw |-> TRUE]
           ELSE [cache |-> cacheFromMomento(momento.value),
                 generated |-> FALSE, threw |-> FALSE]
      ELSE [cache |-> generateCache(cell), generated |-> TRUE,
            threw |-> FALSE]

\* addRectangle and bindCachePopup: the rectangle of the cache that is
\* pushed next onto localCaches, with the cache its popup is bound to
renderCache(caches, cache) ==
  [bounds |-> getCellBounds(cache.position), popup |-> Len(caches) + 1]

\* a Cell as main.ts reads it: its i and j
CellOf(cell) == [i |-> cell.i, j |-> cell.j]

\* the first loop of updateLocalCaches, from the n-th live cache on
RECURSIVE StoreAll(_, _, _)
StoreAll(storage, caches, n) ==
  IF n <= Len(caches)
  THEN StoreAll(storeCache(storage, caches[n]), caches, n + 1)
  ELSE storage

\* a mutant of shouldSpawn: every near cell spawns
shouldSpawn_always(cell) == TRUE

\* a mutant of shouldSpawn: a luck of exactly the probability spawns too
shouldSpawn_inclusive(cell) ==
  luck(CellKey(cell.i, cell.j)) <= CACHE_SPAWN_PROBABILITY

\* the test of updateLocalCaches on a near cell, main.ts:496
shouldSpawn(cell) == luck(CellKey(cell.i, cell.j)) < CACHE_SPAWN_PROBABILITY

\* the last loop of updateLocalCaches, from the n-th near cell on
RECURSIVE SpawnAll(_, _, _, _)
SpawnAll(storage, cells, n, acc) ==
  IF n <= Len(cells)
  THEN IF shouldSpawn(cells[n])
       THEN LET loaded == loadCache(storage, CellOf(cells[n]))
            IN  SpawnAll(storage, cells, n + 1,
                  [acc EXCEPT
                     !.caches = Append(@, loaded.cache),
                     !.markers = Append(@, renderCache(acc.caches,
                                                       loaded.cache)),
                     !.generated = IF loaded.generated
                                   THEN @ \cup {loaded.cache}
                                   ELSE @])
       ELSE SpawnAll(storage, cells, n + 1, acc)
  ELSE acc

\* the last loop of updateLocalCaches over the near cells, once the live
\* caches are stored and localCaches and cacheMarkers are emptied
SpawnNear(stored, near) ==
  SpawnAll(stored, near.cells, 1,
           [known |-> near.known, storage |-> stored, caches |-> <<>>,
            markers |-> <<>>, generated |-> {}])

\* updateLocalCaches: the registry, the store, localCaches and cacheMarkers
\* after it, and the caches generateCache made during it
updateLocalCaches(known, storage, caches, playerLocation) ==
  SpawnNear(StoreAll(storage, caches, 1),
            getCellsNearPoint(known, playerLocation))

KeyOf(cache) == CellKey(cache.position.i, cache.position.j)
LiveKeys(caches) == { KeyOf(caches[n]) : n \in 1 .. Len(caches) }

\* history: departed after a handler replaced the live caches `before` by
\* `after`
Departing(old, before, after) ==
  LET gone == LiveKeys(before) \ LiveKeys(after)
  IN  [k \in (DOMAIN old \cup gone) \ LiveKeys(after) |->
         IF k \in gone
         THEN before[CHOOSE n \in 1 .. Len(before) :
                                 KeyOf(before[n]) = k].coins
         ELSE old[k]]

\* history: the caches of `after` that were not live and had departed
Reentering(old, before, after) ==
  { [key |-> k, coins |-> old[k]] :
      k \in (DOMAIN old \cap LiveKeys(after)) \ LiveKeys(before) }

\* the page once it is loaded: the player, and what updateLocalCaches left
Loaded(inv, upd) ==
  [location |-> OAKES_CLASSROOM, inventory |-> inv,
   localStorage |-> upd.storage, knownCells |-> upd.known,
   localCaches |-> upd.caches, cacheMarkers |-> upd.markers,
   generated |-> upd.generated]

\* the page loads over the store `storage`: main.ts:360-368 and 620-622
Startup(storage) ==
  LET loaded == loadPlayerCoins(storage)
      inv == IF loaded.found THEN loaded.value ELSE <<>>
      \* dispatchEvent("player-inventory-changed"): savePlayer
      saved == savePlayer(storage, inv)
  IN  \* new Board(...): no cell is known
      Loaded(inv, updateLocalCaches(<<>>, saved, <<>>, OAKES_CLASSROOM))

NoCall == [call |-> "", point |-> OAKES_CLASSROOM, cells |-> <<>>]

\* the first load of the page, over an empty store
Init ==
  /\ \E s \in { Startup(<<>>) } :
      /\ location = s.location
      /\ inventory = s.inventory
      /\ localStorage = s.localStorage
      /\ knownCells = s.knownCells
      /\ localCaches = s.localCaches
      /\ cacheMarkers = s.cacheMarkers
      /\ events = << "player-inventory-changed" >>
      /\ lastOp = [op |-> "startup", arg |-> ""]
      /\ generated = s.generated
      /\ departed = <<>>
      /\ reentered = {}
      /\ ret = NoCall
      /\ calls = 0
      /\ tracking = FALSE
      \* tick(), main.ts:622
      /\ time = 1
      /\ pending = {}
      /\ issued = 0
      /\ applied = 0

\* the page is reloaded: its state is lost, the store is kept
Reload ==
  \E s \in { Startup(localStorage) } :
      /\ location' = s.location
      /\ inventory' = s.inventory
      /\ localStorage' = s.localStorage
      /\ knownCells' = s.knownCells
      /\ localCaches' = s.localCaches
      /\ cacheMarkers' = s.cacheMarkers
      /\ events' = << "player-inventory-changed" >>
      /\ lastOp' = [op |-> "reload", arg |-> ""]
      /\ generated' = s.generated
      /\ departed' = Departing(Departing(departed, localCaches, <<>>), <<>>,
                                s.localCaches)
      /\ reentered' = Reentering(Departing(departed, localCaches, <<>>), <<>>,
                                 s.localCaches)
      /\ tracking' = FALSE
      /\ time' = 1
      \* the callbacks of the page that is gone are not called
      /\ pending' = {}
      /\ issued' = 0
      /\ applied' = 0
      /\ UNCHANGED boardVars

\* main.ts:430-434
directions ==
  [north |-> [i |-> 1, j |-> 0], south |-> [i |-> -1, j |-> 0],
   east |-> [i |-> 0, j |-> 1], west |-> [i |-> 0, j |-> -1]]

\* the bound of the model on the player's walk
Abs(n) == IF n < 0 THEN -n ELSE n
\* the positions whose coordinates are within MaxMove moves of GeoFix
FixWalk ==
  { latLng(lat, lng) : lat \in WalkCoordinates({GeoFix.lat}, MaxMove),
                       lng \in WalkCoordinates({GeoFix.lng}, MaxMove) }

\* the player stays within MaxMove tiles of the start cell, or within
\* MaxMove moves of GeoFix
WithinWalk(point) ==
  \/ Abs(MathFloor(Divide(point.lat, TILE_DEGREES)) - StartCell.i)
       + Abs(MathFloor(Divide(point.lng, TILE_DEGREES)) - StartCell.j)
         <= MaxMove
  \/ point \in FixWalk

\* EventListener.playerMoved, main.ts:295-301, for the new player.location
playerMoved(newLocation, op, arg) ==
  \E upd \in { updateLocalCaches(knownCells, localStorage, localCaches,
                               newLocation) } :
      /\ location' = newLocation
      /\ localStorage' = upd.storage
      /\ knownCells' = upd.known
      /\ localCaches' = upd.caches
      /\ cacheMarkers' = upd.markers
      /\ events' = << "player-moved" >>
      /\ lastOp' = [op |-> op, arg |-> arg]
      /\ generated' = upd.generated
      /\ departed' = Departing(departed, localCaches, upd.caches)
      /\ reentered' = Reentering(departed, localCaches, upd.caches)
      /\ UNCHANGED << inventory, boardVars, tracking, time >>

\* a click on a movement button: movePlayer, main.ts:436-450
MovePlayer(direction) ==
  LET vector == directions[direction]
      oldLocation == location
  IN  \E newLocation \in
           { latLng(Plus(oldLocation.lat, Times(vector.i, TILE_DEGREES)),
                    Plus(oldLocation.lng, Times(vector.j, TILE_DEGREES))) } :
        /\ WithinWalk(newLocation)
        /\ playerMoved(newLocation, "move", direction)
        /\ UNCHANGED requestVars

\* a mutant of Shift: the last element is removed, not the first
Shift_last(seq) ==
  [removed |-> seq[Len(seq)], rest |-> SubSeq(seq, 1, Len(seq) - 1)]

\* a mutant of Pop: the first element is removed, not the last
Pop_first(seq) == [removed |-> Head(seq), rest |-> Tail(seq)]

\* a mutant of Pop: the last element is returned and stays in the array
Pop_keeps(seq) == [removed |-> seq[Len(seq)], rest |-> seq]

\* Array.shift and Array.pop: the element removed and the array left
Shift(seq) == [removed |-> Head(seq), rest |-> Tail(seq)]
Pop(seq) ==
  [removed |-> seq[Len(seq)], rest |-> SubSeq(seq, 1, Len(seq) - 1)]

\* EventListener.playerInventoryChanged, main.ts:303-307: the store after it
playerInventoryChanged(storage, inv) == savePlayer(storage, inv)

\* a mutant of withdrawClick: the cache is stored whether or not it had a coin
withdrawClick_storesAlways(cache, inv, storage) ==
  IF Len(cache.coins) > 0
  THEN LET shifted == Shift(cache.coins)
           cache2 == [cache EXCEPT !.coins = shifted.rest]
           inv2 == Append(inv, shifted.removed)
       IN  [cache |-> cache2, inventory |-> inv2,
            storage |-> playerInventoryChanged(storeCache(storage, cache2),
                                               inv2),
            events |-> << "player-inventory-changed", "cache-updated" >>]
  ELSE [cache |-> cache, inventory |-> inv,
        storage |-> storeCache(storage, cache), events |-> <<>>]

\* the click handler of Withdraw, main.ts:574-586, on the cache of its popup
withdrawClick(cache, inv, storage) ==
  IF Len(cache.coins) > 0
  THEN LET shifted == Shift(cache.coins)
           cache2 == [cache EXCEPT !.coins = shifted.rest]
           inv2 == Append(inv, shifted.removed)
       IN  [cache |-> cache2, inventory |-> inv2,
            storage |-> playerInventoryChanged(storeCache(storage, cache2),
                                               inv2),
            events |-> << "player-inventory-changed", "cache-updated" >>]
  ELSE [cache |-> cache, inventory |-> inv, storage |-> storage,
        events |-> <<>>]

\* the click handler of Deposit, main.ts:590-602, on the cache of its popup
depositClick(cache, inv, storage) ==
  IF Len(inv) > 0
  THEN LET popped == Pop(inv)
           cache2 == [cache EXCEPT !.coins = Append(@, popped.removed)]
           inv2 == popped.rest
       IN  [cache |-> cache2, inventory |-> inv2,
            storage |-> playerInventoryChanged(storeCache(storage, cache2),
                                               inv2),
            events |-> << "player-inventory-changed", "cache-updated" >>]
  ELSE [cache |-> cache, inventory |-> inv, storage |-> storage,
        events |-> <<>>]

\* a click in the popup of the m-th rectangle ran and left `after`
Clicked(m, op, after) ==
  /\ inventory' = after.inventory
  /\ localCaches' = [localCaches EXCEPT ![cacheMarkers[m].popup] = after.cache]
  /\ localStorage' = after.storage
  /\ events' = after.events
  /\ lastOp' = [op |-> op, arg |-> KeyOf(after.cache)]
  /\ generated' = {}
  /\ reentered' = {}
  /\ UNCHANGED << location, knownCells, cacheMarkers, departed, boardVars,
                  tracking, time, requestVars >>

\* a click on Withdraw in the popup of the m-th rectangle
Withdraw(m) ==
  \E after \in { withdrawClick(localCaches[cacheMarkers[m].popup], inventory,
                               localStorage) } :
    Clicked(m, "withdraw", after)

\* a click on Deposit in the popup of the m-th rectangle
Deposit(m) ==
  \E after \in { depositClick(localCaches[cacheMarkers[m].popup], inventory,
                              localStorage) } :
    Clicked(m, "deposit", after)

Next ==
  \/ \E direction \in DOMAIN directions : MovePlayer(direction)
  \/ \E m \in 1 .. Len(cacheMarkers) : Withdraw(m)
  \/ \E m \in 1 .. Len(cacheMarkers) : Deposit(m)
  \/ Reload

Spec == Init /\ [][Next]_vars

(***************************************************************************)
(* Live tracking, main.ts:402-420 and 608-618: SpecTrack.  tick runs once  *)
(* per animation frame; a position request is answered later, if ever,     *)
(* and the answers come in any order.                                      *)
(***************************************************************************)
\* main.ts:611
TrackPeriod == 50

\* the positions the geolocation reports: GeoFix, and the start moved one
\* tile north
StartNorth == latLng(Moved(OAKES_CLASSROOM.lat, 1), OAKES_CLASSROOM.lng)
GeoPositions == { GeoFix, StartNorth }

\* a handler that dispatches no event and touches neither the player nor the
\* caches ran
Idle(op) ==
  /\ events' = <<>>
  /\ lastOp' = [op |-> op, arg |-> ""]
  /\ generated' = {}
  /\ reentered' = {}
  /\ UNCHANGED << location, inventory, localStorage, knownCells, localCaches,
                  cacheMarkers, departed, boardVars >>

\* the click handler of the sensor button, main.ts:407
SensorClick ==
  /\ tracking' = ~tracking
  /\ Idle("sensor")
  /\ UNCHANGED << time, requestVars >>

\* trackPlayer, main.ts:409-420: the request it issues is in flight
trackPlayer ==
  IF tracking
  THEN /\ issued < MaxRequests
       /\ issued' = issued + 1
       /\ pending' = pending \cup {issued + 1}
       /\ applied' = applied
  ELSE UNCHANGED requestVars

\* tick, main.ts:609-618, in an animation frame
Tick ==
  /\ IF time + 1 > TrackPeriod
     THEN trackPlayer /\ time' = 0
     ELSE time' = time + 1 /\ UNCHANGED requestVars
  /\ Idle("tick")
  /\ UNCHANGED tracking

\* the callback of getCurrentPosition, main.ts:411-418, for the request and
\* the position reported
Geolocated(request, position) ==
  /\ request \in pending
  /\ pending' = pending \ {request}
  /\ applied' = request
  /\ issued' = issued
  /\ playerMoved(position, "geolocation", ToString(request))

NextTrack ==
  \/ SensorClick
  \/ Tick
  \/ \E request \in pending, position \in GeoPositions :
       Geolocated(request, position)
  \/ Reload

SpecTrack == Init /\ [][NextTrack]_vars

(***************************************************************************)
(* The game with its reset button, main.ts:390-400: SpecReset.             *)
(***************************************************************************)
\* a mutant of clear: the store is left as it is
clear_nothing(storage) == storage

\* localStorage.clear()
clear(storage) == <<>>

\* the click handler of the reset button, for the answer to confirm(), and
\* the reload of the page it asks for
ResetClick(confirmed) ==
  IF confirmed
  THEN \E s \in { Startup(clear(localStorage)) } :
         /\ location' = s.location
         /\ inventory' = s.inventory
         /\ localStorage' = s.localStorage
         /\ knownCells' = s.knownCells
         /\ localCaches' = s.localCaches
         /\ cacheMarkers' = s.cacheMarkers
         /\ events' = << "player-inventory-changed" >>
         /\ lastOp' = [op |-> "reset", arg |-> ""]
         /\ generated' = s.generated
         /\ departed' = Departing(Departing(departed, localCaches, <<>>),
                                  <<>>, s.localCaches)
         /\ reentered' = Reentering(Departing(departed, localCaches, <<>>),
                                    <<>>, s.localCaches)
         /\ tracking' = FALSE
         /\ time' = 1
         /\ pending' = {}
         /\ issued' = 0
         /\ applied' = 0
         /\ UNCHANGED boardVars
  ELSE /\ Idle("decline")
       /\ UNCHANGED << tracking, time, requestVars >>

NextReset ==
  \/ \E direction \in DOMAIN directions : MovePlayer(direction)
  \/ \E m \in 1 .. Len(cacheMarkers) : Withdraw(m)
  \/ \E m \in 1 .. Len(cacheMarkers) : Deposit(m)
  \/ Reload
  \/ \E confirmed \in BOOLEAN : ResetClick(confirmed)

SpecReset == Init /\ [][NextReset]_vars

(***************************************************************************)
(* The game of a tracked player: SpecGeo and SpecWalk.  The runs start     *)
(* when the player has switched tracking on and tick has issued the first  *)
(* position request, not answered yet.  In SpecGeo the request is answered *)
(* by a position near the start, among the clicks of the game; in SpecWalk *)
(* the player walks from any position reported.                            *)
(***************************************************************************)
InitTracked ==
  /\ \E s \in { Startup(<<>>) } :
      /\ location = s.location
      /\ inventory = s.inventory
      /\ localStorage = s.localStorage
      /\ knownCells = s.knownCells
      /\ localCaches = s.localCaches
      /\ cacheMarkers = s.cacheMarkers
  /\ events = <<>>
  /\ lastOp = [op |-> "tick", arg |-> ""]
  /\ generated = {}
  /\ departed = <<>>
  /\ reentered = {}
  /\ ret = NoCall
  /\ calls = 0
  /\ tracking = TRUE
  /\ time = 0
  /\ pending = {1}
  /\ issued = 1
  /\ applied = 0

NextGeo ==
  \/ \E direction \in DOMAIN directions : MovePlayer(direction)
  \/ \E m \in 1 .. Len(cacheMarkers) : Withdraw(m)
  \/ \E m \in 1 .. Len(cacheMarkers) : Deposit(m)
  \/ \E request \in pending : Geolocated(request, StartNorth)
  \/ Reload

SpecGeo == InitTracked /\ [][NextGeo]_vars

NextWalk ==
  \/ \E direction \in DOMAIN directions : MovePlayer(direction)
  \/ \E request \in pending, position \in GeoPositions :
       Geolocated(request, position)

SpecWalk == InitTracked /\ [][NextWalk]_vars

(***************************************************************************)
(* A Board of its own, called with any point: SpecBoard.                   *)
(***************************************************************************)
BoardPoints == { latLng(lat, lng) : lat \in BoardLats, lng \in BoardLngs }

mainVars == << location, inventory, localStorage, localCaches, cacheMarkers,
               events, lastOp, generated, departed, reentered, tracking, time,
               pending, issued, applied >>

\* new Board(TILE_DEGREES, NEIGHBORHOOD_SIZE), with no game around it
InitBoard ==
  /\ location = OAKES_CLASSROOM
  /\ inventory = <<>>
  /\ localStorage = <<>>
  /\ knownCells = <<>>
  /\ localCaches = <<>>
  /\ cacheMarkers = <<>>
  /\ events = <<>>
  /\ lastOp = [op |-> "board", arg |-> ""]
  /\ generated = {}
  /\ departed = <<>>
  /\ reentered = {}
  /\ ret = NoCall
  /\ calls = 0
  /\ tracking = FALSE
  /\ time = 0
  /\ pending = {}
  /\ issued = 0
  /\ applied = 0

CallGetCellForPoint(point) ==
  LET r == getCellForPoint(knownCells, point)
  IN  /\ calls < MaxCalls
      /\ calls' = calls + 1
      /\ knownCells' = r.known
      /\ ret' = [call |-> "getCellForPoint", point |-> point,
                 cells |-> << r.cell >>]
      /\ UNCHANGED mainVars

CallGetCellsNearPoint(point) ==
  LET r == getCellsNearPoint(knownCells, point)
  IN  /\ calls < MaxCalls
      /\ calls' = calls + 1
      /\ knownCells' = r.known
      /\ ret' = [call |-> "getCellsNearPoint", point |-> point,
                 cells |-> r.cells]
      /\ UNCHANGED mainVars

NextBoard ==
  \/ \E point \in BoardPoints : CallGetCellForPoint(point)
  \/ \E point \in BoardPoints : CallGetCellsNearPoint(point)

SpecBoard == InitBoard /\ [][NextBoard]_vars

(***************************************************************************)
(* The loaders, called over any store: SpecStore.  A store is what an      *)
(* earlier session, or anything else that writes the origin's              *)
(* localStorage, left: under each key no record, a record that is no JSON  *)
(* text, or a record the game wrote.                                       *)
(***************************************************************************)
StoreKinds == {"absent", "corrupt", "valid"}

\* the store with the record of the kind under the key; text is the record
\* when it is valid
WithRecord(storage, key, kind, text) ==
  IF kind = "absent" THEN storage
  ELSE setItem(storage, key, IF kind = "corrupt" THEN NotJson ELSE text)

\* the cells whose records the stores hold: the cell east of the start cell,
\* generated with two coins, and the cell south of it, generated with none
EastCell == [i |-> StartCell.i, j |-> StartCell.j + 1]
SouthCell == [i |-> StartCell.i - 1, j |-> StartCell.j]
StoreCells == { EastCell, SouthCell }

\* the records the game wrote: the player holds the first coin of the east
\* cell's cache, that cache holds its second coin, the south cell's none
Stores ==
  { WithRecord(
      WithRecord(
        WithRecord(<<>>, "player", player,
          playerCoinsToMomento(<< [location |-> EastCell,
                                   serialNumber |-> 0] >>)),
        CellKey(EastCell.i, EastCell.j), east,
        cacheToMomento([coins |-> << [location |-> EastCell,
                                      serialNumber |-> 1] >>,
                        position |-> EastCell])),
      CellKey(SouthCell.i, SouthCell.j), south,
      cacheToMomento([coins |-> <<>>, position |-> SouthCell])) :
      player \in StoreKinds, east \in StoreKinds, south \in StoreKinds }

InitStore ==
  /\ location = OAKES_CLASSROOM
  /\ inventory = <<>>
  /\ localStorage \in Stores
  /\ knownCells = <<>>
  /\ localCaches = <<>>
  /\ cacheMarkers = <<>>
  /\ events = <<>>
  /\ lastOp = [op |-> "store", arg |-> ""]
  /\ generated = {}
  /\ departed = <<>>
  /\ reentered = {}
  /\ ret = NoCall
  /\ calls = 0
  /\ tracking = FALSE
  /\ time = 0
  /\ pending = {}
  /\ issued = 0
  /\ applied = 0

CallLoadPlayerCoins ==
  /\ calls < MaxCalls
  /\ calls' = calls + 1
  /\ ret' = [call |-> "loadPlayerCoins",
             result |-> loadPlayerCoins(localStorage)]
  /\ UNCHANGED << mainVars, knownCells >>

CallLoadCache(cell) ==
  /\ calls < MaxCalls
  /\ calls' = calls + 1
  /\ ret' = [call |-> "loadCache", cell |-> cell,
             result |-> loadCache(localStorage, cell)]
  /\ UNCHANGED << mainVars, knownCells >>

NextStore ==
  \/ CallLoadPlayerCoins
  \/ \E cell \in StoreCells : CallLoadCache(cell)

SpecStore == InitStore /\ [][NextStore]_vars

(***************************************************************************)
(* Properties.                                                             *)
(***************************************************************************)
\* every cell that can be near the player within the walk
WorldCells ==
  { [i |-> StartCell.i + di, j |-> StartCell.j + dj] :
      di \in -(MaxMove + tileVisibilityRadius) .. MaxMove + tileVisibilityRadius,
      dj \in -(MaxMove + tileVisibilityRadius) .. MaxMove + tileVisibilityRadius }

\* the live cache of a key, and its place in localCaches
LiveIndex(key) ==
  CHOOSE n \in 1 .. Len(localCaches) : KeyOf(localCaches[n]) = key
LiveCache(key) == localCaches[LiveIndex(key)]

\* the least integer n with n >= l * COIN_PROBABILITY / 1000
CoinCount(l) ==
  CHOOSE n \in 0 .. COIN_PROBABILITY :
    /\ n * 1000 >= l * COIN_PROBABILITY
    /\ (n - 1) * 1000 < l * COIN_PROBABILITY

\* `cache` is what C1 says generateCache makes for `cell`
IsGeneratedFor(cache, cell) ==
  /\ cache.position = cell
  /\ Len(cache.coins) = CoinCount(luck(CellKey(cell.i, cell.j)))
  /\ \A n \in 1 .. Len(cache.coins) :
       cache.coins[n] = [location |-> cell, serialNumber |-> n - 1]

\* C1: in every state of every run, generateCache of any cell is the cache
\* at that cell with ceil(luck * COIN_PROBABILITY) coins, numbered from 0 in
\* increasing order and each tagged with the cell, and so is every cache
\* generateCache returned to the last handler: it depends on the cell only.
C1_GenerateCacheIsPure ==
  /\ \A cell \in WorldCells : IsGeneratedFor(generateCache(cell), cell)
  /\ \A cache \in generated : IsGeneratedFor(cache, cache.position)

\* C1's case: the page was loaded again and generateCache made the two-coin
\* cache of a cell a second time
C1_Witness ==
  /\ lastOp.op = "reload"
  /\ \E cache \in generated : Len(cache.coins) = 2

\* C2 (state): each entry of the registry is filed under the key of its own
\* coordinates, and every cell the last call returned is the registry's
\* object for its coordinates.
C2_RegistryState ==
  /\ \A key \in DOMAIN knownCells :
       CellKey(knownCells[key].i, knownCells[key].j) = key
  /\ \A n \in 1 .. Len(ret.cells) :
       LET key == CellKey(ret.cells[n].i, ret.cells[n].j)
       IN  key \in DOMAIN knownCells /\ knownCells[key] = ret.cells[n]

\* C2 (step): an entry, once registered, is neither removed nor replaced.
C2_RegistryStep ==
  \A key \in DOMAIN knownCells :
    key \in DOMAIN knownCells' /\ knownCells'[key] = knownCells[key]

\* C2: on one Board, after any sequence of getCellForPoint and
\* getCellsNearPoint calls, the registry holds one cell per coordinate pair,
\* with those coordinates, every lookup returns that very object, and an
\* entry is never replaced or removed.
C2_CanonicalCells == [](C2_RegistryState) /\ [][C2_RegistryStep]_vars

\* C2's case: the third call looked up the one cell the first two had looked
\* up already
C2_Witness ==
  /\ calls = 3
  /\ ret.call = "getCellForPoint"
  /\ Cardinality(DOMAIN knownCells) = 1

\* C3: in every state, for every cell, loadCache returns the decoded record
\* of the cell's key when there is one (the same position, the same coins in
\* the same order as the record, generateCache not consulted) and exactly
\* generateCache(cell) when there is none; and a live cache that is stored
\* and loaded again comes back unchanged, whatever it holds.
C3_StoredBeforeGenerated ==
  /\ \A cell \in WorldCells :
       LET key == CellKey(cell.i, cell.j)
           loaded == loadCache(localStorage, cell)
       IN  IF key \in DOMAIN localStorage
           THEN /\ ~loaded.generated
                /\ cacheToMomento(loaded.cache) = localStorage[key]
                /\ loaded.cache.position = cell
           ELSE /\ loaded.generated
                /\ loaded.cache = generateCache(cell)
  /\ \A n \in 1 .. Len(localCaches) :
       loadCache(storeCache(localStorage, localCaches[n]),
                 localCaches[n].position)
         = [cache |-> localCaches[n], generated |-> FALSE, threw |-> FALSE]

\* C3's case: after a reload a live cache, loaded from the store, holds no
\* coin although generateCache gives its cell two
C3_Witness ==
  /\ lastOp.op = "reload"
  /\ \E n \in 1 .. Len(localCaches) :
       /\ localCaches[n].coins = <<>>
       /\ Len(generateCache(localCaches[n].position).coins) = 2
       /\ localCaches[n] \notin generated

\* C4: a cache that the last handler brought back into localCaches, after
\* it had left them, holds exactly the coins it held when it left.
C4_MutatedCacheSurvives ==
  \A e \in reentered :
    /\ e.key \in LiveKeys(localCaches)
    /\ LiveCache(e.key).coins = e.coins

\* C4's case: a move brought back a cache whose coins are not the generated
\* ones, and the player holds a coin
C4_Witness ==
  /\ lastOp.op = "move"
  /\ inventory # <<>>
  /\ \E e \in reentered :
       e.coins # generateCache(LiveCache(e.key).position).coins

\* what a reload in this state would start the page with
AfterReload == Startup(localStorage)

\* C5: in every state the stored player record is the inventory, and each
\* live cache is what its stored record holds (or, with no record, what
\* generateCache makes); so a reload in this state starts with the same
\* inventory, in the same order, and every cache it makes live holds the
\* coins it held before: those of the live cache, or those it left with.
C5_PersistedAcrossSessions ==
  /\ "player" \in DOMAIN localStorage
  /\ localStorage["player"] = playerCoinsToMomento(inventory)
  /\ \A n \in 1 .. Len(localCaches) :
       IF KeyOf(localCaches[n]) \in DOMAIN localStorage
       THEN localStorage[KeyOf(localCaches[n])] = cacheToMomento(localCaches[n])
       ELSE localCaches[n] = generateCache(localCaches[n].position)
  /\ AfterReload.inventory = inventory
  /\ \A n \in 1 .. Len(AfterReload.localCaches) :
       LET cache == AfterReload.localCaches[n]
       IN  /\ KeyOf(cache) \in LiveKeys(localCaches)
                => cache = LiveCache(KeyOf(cache))
           /\ KeyOf(cache) \in DOMAIN departed
                => cache.coins = departed[KeyOf(cache)]

\* C5's case: the page was reloaded with two coins in the inventory and a
\* live cache that is not as generated
C5_Witness ==
  /\ lastOp.op = "reload"
  /\ Len(inventory) = 2
  /\ \E n \in 1 .. Len(localCaches) :
       localCaches[n] # generateCache(localCaches[n].position)

\* the other live caches and the other cache records are as they were
OthersUnchanged(key) ==
  /\ Len(localCaches') = Len(localCaches)
  /\ \A n \in 1 .. Len(localCaches) :
       KeyOf(localCaches[n]) # key => localCaches'[n] = localCaches[n]
  /\ \A k \in DOMAIN localStorage \ {key, "player"} :
       k \in DOMAIN localStorage' /\ localStorage'[k] = localStorage[k]

\* C6 (step): what a withdraw from a cache with a coin, and a deposit with a
\* coin in the inventory, do
C6_Step ==
  LET key == lastOp'.arg
      n == LiveIndex(key)
      cache == localCaches[n]
  IN  /\ (lastOp'.op = "withdraw" /\ Len(cache.coins) > 0) =>
           /\ inventory' = Append(inventory, cache.coins[1])
           /\ localCaches'[n].coins = Tail(cache.coins)
           /\ localCaches'[n].position = cache.position
           /\ OthersUnchanged(key)
      /\ (lastOp'.op = "deposit" /\ Len(inventory) > 0) =>
           /\ inventory' = SubSeq(inventory, 1, Len(inventory) - 1)
           /\ localCaches'[n].coins
                = Append(cache.coins, inventory[Len(inventory)])
           /\ localCaches'[n].position = cache.position
           /\ OthersUnchanged(key)

\* C6: a withdraw from a cache with a coin moves the first coin of the cache
\* to the end of the inventory; a deposit with a coin in the inventory moves
\* the last coin of the inventory to the end of the cache; no other cache
\* and no other coin changes.
C6_WithdrawFirstDepositLast == [][C6_Step]_vars

\* C6's case: a deposit put a coin of another cell at the end of a cache and
\* left a coin in the inventory
C6_Witness ==
  /\ lastOp.op = "deposit"
  /\ events # <<>>
  /\ inventory # <<>>
  /\ LET coins == LiveCache(lastOp.arg).coins
     IN  coins[Len(coins)].location # LiveCache(lastOp.arg).position

\* C7 (step): a withdraw from a cache with no coin and a deposit with an
\* empty inventory change nothing and raise no event
C7_Step ==
  LET cache == LiveCache(lastOp'.arg)
  IN  (\/ lastOp'.op = "withdraw" /\ Len(cache.coins) = 0
       \/ lastOp'.op = "deposit" /\ Len(inventory) = 0)
      => /\ events' = <<>>
         /\ UNCHANGED << localCaches, inventory, localStorage, location,
                         knownCells, cacheMarkers >>

\* C7: a withdraw from a cache with no coin and a deposit with an empty
\* inventory leave the caches, the inventory, every stored record and the
\* player's location unchanged and raise no event.
C7_EmptyIsNoOp == [][C7_Step]_vars

\* C7's case: a withdraw was clicked on a live cache that has no coin and no
\* stored record, while the player holds a coin
C7_Witness ==
  /\ lastOp.op = "withdraw"
  /\ events = <<>>
  /\ inventory # <<>>
  /\ lastOp.arg \notin DOMAIN localStorage

\* the cell of the player
PlayerCell ==
  [i |-> MathFloor(Divide(location.lat, TILE_DEGREES)),
   j |-> MathFloor(Divide(location.lng, TILE_DEGREES))]

\* the cells among `cells`, in order, whose luck is below the probability
RECURSIVE LuckyCells(_)
LuckyCells(cells) ==
  IF cells = <<>> THEN <<>>
  ELSE LET rest == LuckyCells(Tail(cells))
           cell == [i |-> Head(cells).i, j |-> Head(cells).j]
       IN  IF luck(CellKey(cell.i, cell.j)) < CACHE_SPAWN_PROBABILITY
           THEN << cell >> \o rest ELSE rest

\* C8: at start-up and after every handler, the live caches are one cache per
\* cell of getCellsNearPoint(player.location) whose luck is below
\* CACHE_SPAWN_PROBABILITY, in scan order, each with one rectangle of its
\* own, and none is outside the visibility square.
C8_LiveCachesAreTheLuckyNearCells ==
  /\ [n \in 1 .. Len(localCaches) |-> localCaches[n].position]
       = LuckyCells(getCellsNearPoint(knownCells, location).cells)
  /\ Len(cacheMarkers) = Len(localCaches)
  /\ \A n \in 1 .. Len(cacheMarkers) :
       /\ cacheMarkers[n].popup = n
       /\ cacheMarkers[n].bounds = getCellBounds(localCaches[n].position)
  /\ \A n \in 1 .. Len(localCaches) :
       /\ Abs(localCaches[n].position.i - PlayerCell.i) <= tileVisibilityRadius
       /\ Abs(localCaches[n].position.j - PlayerCell.j) <= tileVisibilityRadius

\* C8's case: after a move, a near cell of luck 0.05 has a cache, near cells
\* of luck exactly 0.1 and of luck 0.5 have none, and a cache that was live
\* is no longer
C8_Witness ==
  /\ lastOp.op = "move"
  /\ \E n \in 1 .. Len(localCaches) : luck(KeyOf(localCaches[n])) = 50
  /\ \E cell \in WorldCells :
       /\ luck(CellKey(cell.i, cell.j)) = CACHE_SPAWN_PROBABILITY
       /\ Abs(cell.i - PlayerCell.i) <= tileVisibilityRadius
       /\ Abs(cell.j - PlayerCell.j) <= tileVisibilityRadius
       /\ CellKey(cell.i, cell.j) \notin LiveKeys(localCaches)
  /\ \E cell \in WorldCells :
       /\ luck(CellKey(cell.i, cell.j)) = 500
       /\ Abs(cell.i - PlayerCell.i) <= tileVisibilityRadius
       /\ Abs(cell.j - PlayerCell.j) <= tileVisibilityRadius
       /\ CellKey(cell.i, cell.j) \notin LiveKeys(localCaches)
  /\ DOMAIN departed # {}

\* lower <= x < upper
InHalfOpen(x, lower, upper) == F64Cmp(lower, x) <= 0 /\ F64Cmp(x, upper) < 0

\* the point lies in the half-open tile of the cell, between the bounds
\* getCellBounds gives
InTile(point, cell) ==
  LET bounds == getCellBounds(cell)
  IN  /\ InHalfOpen(point.lat, bounds.southWest.lat, bounds.northEast.lat)
      /\ InHalfOpen(point.lng, bounds.southWest.lng, bounds.northEast.lng)

\* SpecBoard: the tiles of the points, and the tiles around them
BoardTiles ==
  { [i |-> i + di, j |-> j + dj] :
      i \in BoardLatTiles, j \in BoardLngTiles, di \in -1 .. 1, dj \in -1 .. 1 }

\* C9: whenever getCellForPoint was called with a point p, for every tile
\* (i, j) with i * tileWidth <= p.lat < (i + 1) * tileWidth and
\* j * tileWidth <= p.lng < (j + 1) * tileWidth the cell returned is (i, j),
\* for negative coordinates as for positive ones.
C9_PointInTileMapsToTile ==
  ret.call = "getCellForPoint" =>
    \A cell \in BoardTiles :
      InTile(ret.point, cell) => CellOf(ret.cells[1]) = cell

\* the n-th cell of the square of side 2r + 1 around origin, row by row
SquareCell(origin, n) ==
  LET side == 2 * tileVisibilityRadius + 1
  IN  [i |-> origin.i - tileVisibilityRadius + ((n - 1) \div side),
       j |-> origin.j - tileVisibilityRadius + ((n - 1) % side)]

\* C10: whenever getCellsNearPoint was called with a point p of cell
\* (ci, cj), it returned (2r + 1)^2 cells without duplicates: the cells
\* (ci + di, cj + dj) with -r <= di, dj <= r and no other, with di ascending
\* and, for each di, dj ascending, each the registry's cell for its
\* coordinates.
C10_NearCellsAreTheSquare ==
  ret.call = "getCellsNearPoint" =>
    LET origin == CellOf(getCellForPoint(knownCells, ret.point).cell)
        side == 2 * tileVisibilityRadius + 1
    IN  /\ Len(ret.cells) = side * side
        /\ \A n, m \in 1 .. Len(ret.cells) :
             n # m => /\ ret.cells[n] # ret.cells[m]
                      /\ CellOf(ret.cells[n]) # CellOf(ret.cells[m])
        /\ \A n \in 1 .. Len(ret.cells) :
             /\ CellOf(ret.cells[n]) = SquareCell(origin, n)
             /\ Abs(ret.cells[n].i - origin.i) <= tileVisibilityRadius
             /\ Abs(ret.cells[n].j - origin.j) <= tileVisibilityRadius
             /\ knownCells[CellKey(ret.cells[n].i, ret.cells[n].j)]
                  = ret.cells[n]
        /\ \A di, dj \in -tileVisibilityRadius .. tileVisibilityRadius :
             \E n \in 1 .. Len(ret.cells) :
               CellOf(ret.cells[n]) = [i |-> origin.i + di, j |-> origin.j + dj]

\* C10's case: a second getCellsNearPoint, for a point of a tile with a
\* negative index next to the first point's tile, returned cells of which
\* all but one row or column were registered by the first call
C10_Witness ==
  /\ calls = 2
  /\ ret.call = "getCellsNearPoint"
  /\ \E n \in 1 .. Len(ret.cells) : ret.cells[n].j < 0
  /\ Cardinality(DOMAIN knownCells)
       = (2 * tileVisibilityRadius + 1) * (2 * tileVisibilityRadius + 2)

\* the record under the key is missing from the store, or is no JSON text
MissingOrCorrupt(storage, key) ==
  key \notin DOMAIN storage \/ JsonParseThrows(storage[key])

\* C11: a read of a missing or corrupt record is never fatal: no call of
\* loadCache or loadPlayerCoins ends by an exception; loadCache of a cell
\* whose record is missing or corrupt returns the generated cache of the
\* cell, and loadPlayerCoins over a missing or corrupt player record returns
\* null, for which the player starts with an empty inventory.
C11_MissingOrCorruptIsNotFatal ==
  /\ ret.call = "loadCache" =>
       /\ ~ret.result.threw
       /\ MissingOrCorrupt(localStorage, CellKey(ret.cell.i, ret.cell.j))
            => /\ ret.result.generated
               /\ ret.result.cache = generateCache(ret.cell)
  /\ ret.call = "loadPlayerCoins" =>
       /\ ~ret.result.threw
       /\ MissingOrCorrupt(localStorage, "player") => ~ret.result.found

\* a step in which a geolocation callback ran
GeolocationStep == lastOp'.op = "geolocation" /\ applied' # applied

\* C12: a newer position request supersedes the older ones in flight: no
\* callback assigns to player.location the position of a request issued
\* before the request whose position was assigned last; and once no request
\* is in flight, the position assigned last is that of the request issued
\* last.
C12_Step == GeolocationStep => applied' > applied
C12_State == (pending = {} /\ applied # 0) => applied = issued
C12_NewerRequestSupersedes == [](C12_State) /\ [][C12_Step]_vars

\* C14: while tracking is false no geolocation callback changes
\* player.location or dispatches player-moved, whenever its request was
\* issued.
C14_Step ==
  (GeolocationStep /\ ~tracking)
    => (location' = location /\ events' # << "player-moved" >>)
C14_TrackingOffStopsGeolocation == [][C14_Step]_vars

\* the cells of the world that spawn a cache
SpawningCells == { cell \in WorldCells : shouldSpawn(cell) }

\* what the cache of a cell holds now: the live cache when there is one, or
\* else what loadCache would make of the store
CacheCoins(cell) ==
  IF CellKey(cell.i, cell.j) \in LiveKeys(localCaches)
  THEN LiveCache(CellKey(cell.i, cell.j)).coins
  ELSE loadCache(localStorage, cell).cache.coins

CoinsOf(coins) == { coins[n] : n \in 1 .. Len(coins) }

\* the coins generateCache makes for the cells
GeneratedCoins(cells) ==
  UNION { CoinsOf(generateCache(cell).coins) : cell \in cells }

\* the number of coins in the caches of the cells
RECURSIVE CountCoins(_)
CountCoins(cells) ==
  IF cells = {} THEN 0
  ELSE LET cell == CHOOSE c \in cells : TRUE
       IN  Len(CacheCoins(cell)) + CountCoins(cells \ {cell})

\* C13: in every state reached by moves, withdraws, deposits, geolocation
\* updates and reloads, the coins in the inventory and in the caches of the
\* spawning cells (live, stored or not yet generated) are exactly the coins
\* generateCache makes for these cells, each in one place: none is lost and
\* none is duplicated, and their number is constant.
C13_CoinsAreConserved ==
  /\ CoinsOf(inventory)
       \cup UNION { CoinsOf(CacheCoins(cell)) : cell \in SpawningCells }
       = GeneratedCoins(SpawningCells)
  /\ Len(inventory) + CountCoins(SpawningCells)
       = Cardinality(GeneratedCoins(SpawningCells))

\* C13's case: after a geolocation update the player holds a coin, a cache
\* that is no longer live holds a coin of another cell, and a live cache does
\* not hold what was generated for it
C13_Witness ==
  /\ lastOp.op = "geolocation"
  /\ Len(inventory) > 0
  /\ \E cell \in SpawningCells :
       /\ CellKey(cell.i, cell.j) \notin LiveKeys(localCaches)
       /\ \E coin \in CoinsOf(CacheCoins(cell)) : coin.location # cell
  /\ \E cell \in SpawningCells :
       /\ CellKey(cell.i, cell.j) \in LiveKeys(localCaches)
       /\ Len(CacheCoins(cell)) # Len(generateCache(cell).coins)

\* C15: a confirmed reset, with the reload it triggers, leaves the game as a
\* first load does: the store holds no cache record, the inventory is empty,
\* the player is at the start, every live cache and every cache that can
\* become visible holds exactly what generateCache makes for its cell; a
\* declined reset changes nothing of the game.
C15_Step ==
  /\ lastOp'.op = "reset" =>
       /\ DOMAIN localStorage' \subseteq {"player"}
       /\ inventory' = <<>>
       /\ location' = OAKES_CLASSROOM
       /\ \A n \in 1 .. Len(localCaches') :
            localCaches'[n] = generateCache(localCaches'[n].position)
       /\ \A cell \in WorldCells :
            loadCache(localStorage', cell).cache = generateCache(cell)
  /\ lastOp'.op = "decline" =>
       UNCHANGED << location, inventory, localStorage, knownCells,
                    localCaches, cacheMarkers, tracking, time, pending >>
C15_ResetRestoresInitialState == [][C15_Step]_vars

\* C15's case: a reset has just run, and a cache it dropped held other coins
\* than the ones generated for its cell: it is live again, as generated
C15_Witness ==
  /\ lastOp.op = "reset"
  /\ \E e \in reentered :
       \E n \in 1 .. Len(localCaches) :
         /\ KeyOf(localCaches[n]) = e.key
         /\ e.coins # localCaches[n].coins

\* the state a withdraw click and then a deposit click on the cache leave,
\* and the state the clicks in the other order leave
WithdrawDeposit(cache, inv, storage) ==
  depositClick(withdrawClick(cache, inv, storage).cache,
               withdrawClick(cache, inv, storage).inventory,
               withdrawClick(cache, inv, storage).storage)
DepositWithdraw(cache, inv, storage) ==
  withdrawClick(depositClick(cache, inv, storage).cache,
                depositClick(cache, inv, storage).inventory,
                depositClick(cache, inv, storage).storage)

\* C16: in every state and for every live cache that holds a coin, a
\* withdraw followed at once by a deposit on it restores the inventory and
\* leaves the cache with the same coins, rotated left by one (its first coin
\* is now its last); when the player holds a coin too, a deposit followed at
\* once by a withdraw gives the player the coin that was the cache's first,
\* not the coin deposited, which is now the cache's last.
C16_WithdrawDepositRotates ==
  \A n \in 1 .. Len(localCaches) :
    LET cache == localCaches[n]
        wd == WithdrawDeposit(cache, inventory, localStorage)
        dw == DepositWithdraw(cache, inventory, localStorage)
    IN  Len(cache.coins) > 0 =>
          /\ wd.inventory = inventory
          /\ wd.cache.coins = Tail(cache.coins) \o << Head(cache.coins) >>
          /\ CoinsOf(wd.cache.coins) = CoinsOf(cache.coins)
          /\ Len(wd.cache.coins) = Len(cache.coins)
          /\ Len(inventory) > 0 =>
               /\ dw.inventory
                    = SubSeq(inventory, 1, Len(inventory) - 1)
                        \o << Head(cache.coins) >>
               /\ dw.inventory[Len(dw.inventory)] # inventory[Len(inventory)]
               /\ dw.cache.coins
                    = Tail(cache.coins) \o << inventory[Len(inventory)] >>

\* C16's case: a withdraw and then a deposit on the two-coin cache east of
\* the start have run: the player holds nothing again, and the cache holds
\* its coin 1 before its coin 0
C16_Witness ==
  /\ lastOp = [op |-> "deposit", arg |-> CellKey(EastCell.i, EastCell.j)]
  /\ inventory = <<>>
  /\ CellKey(EastCell.i, EastCell.j) \in LiveKeys(localCaches)
  /\ LiveCache(CellKey(EastCell.i, EastCell.j)).coins
       = << [location |-> EastCell, serialNumber |-> 1],
            [location |-> EastCell, serialNumber |-> 0] >>

\* C17: a click on a direction button moves the player by exactly one tile:
\* the player's cell changes by the vector of the direction, one player-moved
\* event is dispatched, and neither the inventory nor the coins of any cache
\* change.
C17_Step ==
  lastOp'.op = "move" =>
    /\ PlayerCell'
         = [i |-> PlayerCell.i + directions[lastOp'.arg].i,
            j |-> PlayerCell.j + directions[lastOp'.arg].j]
    /\ events' = << "player-moved" >>
    /\ inventory' = inventory
    /\ \A cell \in SpawningCells : CacheCoins(cell)' = CacheCoins(cell)
C17_MoveShiftsOneTile == [][C17_Step]_vars

\* C18: the luck that lets a cell spawn also bounds its coins: every luck
\* below CACHE_SPAWN_PROBABILITY gives at most
\* ceil(CACHE_SPAWN_PROBABILITY * COIN_PROBABILITY) = 3 coins; in every state
\* every cache generateCache returned to the last handler, and the generated
\* cache of every spawning cell, holds at most 3 coins, and none when the
\* luck of its cell is 0.
C18_GeneratedCacheHoldsAtMostThree ==
  /\ MathCeilThousandths(CACHE_SPAWN_PROBABILITY * COIN_PROBABILITY) = 3
  /\ \A l \in 0 .. CACHE_SPAWN_PROBABILITY - 1 :
       MathCeilThousandths(l * COIN_PROBABILITY) \in 0 .. 3
  /\ \A cache \in generated
                   \cup { generateCache(cell) : cell \in SpawningCells } :
       /\ Len(cache.coins) \in 0 .. 3
       /\ luck(KeyOf(cache)) = 0 => Len(cache.coins) = 0

\* C18's case: the page was loaded again and generated the cache of a cell
\* of luck 0, with no coin, and the cache of a luckier cell, with coins
C18_Witness ==
  /\ lastOp.op = "reload"
  /\ \E cache \in generated :
       luck(KeyOf(cache)) = 0 /\ Len(cache.coins) = 0
  /\ \E cache \in generated :
       luck(KeyOf(cache)) > 0 /\ Len(cache.coins) > 0

====
